---- MODULE Spec2Model ----
(***************************************************************************)
(* fresh.py: the title parser (filter_tags), the feed pass of main that    *)
(* fills the track batches, and the playlist sync of main.                 *)
(*                                                                         *)
(* A string is a sequence of one-character strings.  Two specifications    *)
(* share the module: SpecTags runs filter_tags on every title over a small *)
(* alphabet, Spec runs main on a family of feeds.                          *)
(***************************************************************************)
EXTENDS Integers, Sequences, FiniteSets, TLC

VARIABLES
    \* ---- filter_tags ----
    title,          \* the characters of the title read so far
    scan,           \* the locals of the scanning loop
    fpc,            \* "scan" | "returned"
    ret,            \* the returned pair (filtered_title, tags)
    \* ---- main: arguments and collaborators ----
    threshold,      \* args.threshold, 0 when not given (falsy)
    includeAlbums,  \* args.include_albums
    fresh,          \* args.fresh
    verbose,        \* args.verbose
    nFill,          \* the feed: nFill direct track links, then the tail posts
    content,        \* playlist id -> the playlist's tracks in the catalog
    \* ---- main: locals ----
    pc,             \* "feed" | "count" | "remove" | "add" | "report" |
                    \* "except" | "done" | "crashed"
    k,              \* posts consumed
    nTail,          \* tail posts consumed
    tracks,
    tracks_array,
    bi,             \* index of tr in tracks_array
    pli,            \* index of playlist in user.playlists
    results,        \* "unbound" until the first add returns
    out,            \* the lines printed by the except handler
    \* ---- history ----
    run,            \* 1: the first sync, 2: the sync run again
    failedAt,       \* <<>> or <<bi, pli, step>> of the failed call
    calls,          \* the catalog calls issued by this run
    accepted,       \* the track references appended, in feed order
    initContent,    \* content before the first run
    afterFirst,     \* content at the end of the first run
    \* ---- extract_track_url and its call in main ----
    search,         \* the response of spotifyObj.search
    spc,            \* "call" | "extracted" | "appended"
    track_url       \* the id of the track whose link is returned, 0: None

tagVars == <<title, scan, fpc, ret>>
searchVars == <<search, spc, track_url>>
\* the variables of the function specifications, which main leaves alone
idleVars == <<tagVars, searchVars>>
argVars == <<threshold, includeAlbums, fresh, verbose, nFill>>
feedVars == <<k, nTail, tracks, tracks_array, accepted>>
syncVars == <<content, bi, pli, results, out, run, failedAt, calls,
              initContent, afterFirst>>
vars == <<tagVars, searchVars, argVars, feedVars, syncVars, pc>>

----------------------------------------------------------------------------
(* Bounds *)

\* longest title SpecTags reads
MaxLen == 5
\* most free posts after the run of direct track links
MaxTail == 1
\* the longest run of direct track links is BatchLimit + MaxOver
MaxOver == 4

----------------------------------------------------------------------------
(* Strings *)

Upper == <<"A","B","C","D","E","F","G","H","I","J","K","L","M",
           "N","O","P","Q","R","S","T","U","V","W","X","Y","Z">>
Lower == <<"a","b","c","d","e","f","g","h","i","j","k","l","m",
           "n","o","p","q","r","s","t","u","v","w","x","y","z">>

\* str.lower() on one character
lower(c) ==
    IF \E i \in 1..Len(Upper) : Upper[i] = c
    THEN Lower[CHOOSE i \in 1..Len(Upper) : Upper[i] = c]
    ELSE c

IsSpace(c) == c = " "

RECURSIVE SplitFrom(_, _, _)
\* str.split() with no argument: the maximal runs of non-space characters
SplitFrom(s, i, word) ==
    IF i > Len(s)
    THEN IF word = <<>> THEN <<>> ELSE <<word>>
    ELSE IF IsSpace(s[i])
         THEN IF word = <<>>
              THEN SplitFrom(s, i + 1, <<>>)
              ELSE <<word>> \o SplitFrom(s, i + 1, <<>>)
         ELSE SplitFrom(s, i + 1, Append(word, s[i]))

split(s) == SplitFrom(s, 1, <<>>)

RECURSIVE join(_)
\* ' '.join(words)
join(words) ==
    IF words = <<>> THEN <<>>
    ELSE IF Len(words) = 1 THEN words[1]
    ELSE words[1] \o <<" ">> \o join(Tail(words))

Range(s) == {s[i] : i \in 1..Len(s)}

\* needle in haystack, on strings
Contains(haystack, needle) ==
    \E i \in 0..(Len(haystack) - Len(needle)) :
        SubSeq(haystack, i + 1, i + Len(needle)) = needle

----------------------------------------------------------------------------
(* constants.py *)

\* closer -> opener
pun_dict(c) == IF c = "]" THEN "[" ELSE "("

ft_set == { <<"f","e","a","t">>, <<"f","t">>,
            <<"f","e","a","t","u","r","i","n","g">>,
            <<"f","e","a","t",".">>, <<"f","t",".">> }

----------------------------------------------------------------------------
(* filter_tags *)

NoPun == "None"

ScanInit ==
    [tags |-> {}, filtered_title |-> <<>>, tag |-> <<>>,
     last_pun |-> NoPun, add_to_tag |-> FALSE]

\* the variant of ScanStep that removes dashes outside of tags only
ScanStepDashInTag(s, ch) ==
    LET character == lower(ch) IN
    IF character = "[" \/ character = "("
    THEN IF s.add_to_tag
         THEN [s EXCEPT !.tag = Append(@, character)]
         ELSE [s EXCEPT !.last_pun = character, !.add_to_tag = TRUE]
    ELSE IF character = "]" \/ character = ")"
    THEN IF s.add_to_tag
         THEN IF pun_dict(character) = s.last_pun
              THEN [s EXCEPT !.tags = @ \cup Range(split(s.tag)),
                             !.tag = <<>>, !.add_to_tag = FALSE]
              ELSE [s EXCEPT !.tag = Append(@, character)]
         ELSE s
    ELSE IF s.add_to_tag
         THEN [s EXCEPT !.tag = Append(@, character)]
         ELSE IF character # "-"
              THEN [s EXCEPT !.filtered_title = Append(@, character)]
              ELSE s

\* the variant of ScanStep without the `if add_to_tag` of line 236: a closer
\* read outside of a tag falls through to the text
ScanStepStrayCloser(s, ch) ==
    LET character == lower(ch) IN
    IF character = "[" \/ character = "("
    THEN IF s.add_to_tag
         THEN [s EXCEPT !.tag = Append(@, character)]
         ELSE [s EXCEPT !.last_pun = character, !.add_to_tag = TRUE]
    ELSE IF (character = "]" \/ character = ")") /\ s.add_to_tag
    THEN IF pun_dict(character) = s.last_pun
         THEN [s EXCEPT !.tags = @ \cup Range(split(s.tag)),
                        !.tag = <<>>, !.add_to_tag = FALSE]
         ELSE [s EXCEPT !.tag = Append(@, character)]
    ELSE IF character # "-"
    THEN IF s.add_to_tag
         THEN [s EXCEPT !.tag = Append(@, character)]
         ELSE [s EXCEPT !.filtered_title = Append(@, character)]
    ELSE s

\* one iteration of `for character in title`
ScanStep(s, ch) ==
    LET character == lower(ch) IN
    IF character = "[" \/ character = "("
    THEN IF s.add_to_tag
         THEN [s EXCEPT !.tag = Append(@, character)]
         ELSE [s EXCEPT !.last_pun = character, !.add_to_tag = TRUE]
    ELSE IF character = "]" \/ character = ")"
    THEN IF s.add_to_tag
         THEN IF pun_dict(character) = s.last_pun
              THEN [s EXCEPT !.tags = @ \cup Range(split(s.tag)),
                             !.tag = <<>>, !.add_to_tag = FALSE]
              ELSE [s EXCEPT !.tag = Append(@, character)]
         ELSE s
    ELSE IF character # "-"
    THEN IF s.add_to_tag
         THEN [s EXCEPT !.tag = Append(@, character)]
         ELSE [s EXCEPT !.filtered_title = Append(@, character)]
    ELSE s

RECURSIVE FeatLoop(_, _)
\* `for i in range(len(filtered_title))` from index j (0-based) on: the
\* value the loop leaves in i
FeatLoop(words, j) ==
    IF j >= Len(words)
    THEN IF Len(words) = 0 THEN 0 ELSE Len(words) - 1
    ELSE IF words[j + 1] \in ft_set
         THEN j - 1
         ELSE FeatLoop(words, j + 1)

\* the index the feat loop leaves in i
FeatIndex(words) == FeatLoop(words, 0)

\* the variant of Truncate without `i -= 1`: the marker word is kept
TruncateKeepsMarker(words) ==
    LET i == FeatIndex(words) + 1
        n == IF i + 1 < Len(words) THEN i + 1 ELSE Len(words)
    IN IF \E j \in 1..Len(words) : words[j] \in ft_set
       THEN SubSeq(words, 1, n)
       ELSE words

\* filtered_title[:i + 1] for i >= -1
Truncate(words) ==
    LET i == FeatIndex(words)
        n == IF i + 1 < Len(words) THEN i + 1 ELSE Len(words)
    IN SubSeq(words, 1, n)

\* what follows the scanning loop, to the return
\* the variant of ScanReturn that takes the text of a tag left open for
\* text of the title
ScanReturnOpenTag(s) ==
    [filtered_title |->
         join(Truncate(split(s.filtered_title \o <<" ">> \o s.tag))),
     tags |-> s.tags]

ScanReturn(s) ==
    [filtered_title |-> join(Truncate(split(s.filtered_title))),
     tags |-> s.tags]

RECURSIVE ScanAll(_, _, _)
ScanAll(s, t, i) ==
    IF i > Len(t) THEN s ELSE ScanAll(ScanStep(s, t[i]), t, i + 1)

filter_tags(t) == ScanReturn(ScanAll(ScanInit, t, 1))

----------------------------------------------------------------------------
(* The feed and the catalog *)

\* the overflow test of main: len(tracks) > 90
BatchLimit == 90

SpotifyDomain == "open.spotify.com"

Url(kind, id, qs) == [kind |-> kind, id |-> id, qs |-> qs]

\* the canonical link of catalog track id
TrackRef(id) == Url("track", id, FALSE)

FreshTitle == <<"[","F","R","E","S","H","]"," ","a"," ","-"," ","b">>
PlainTitle == <<"a"," ","-"," ","b">>
DiscussionTitle ==
    <<"[","D","i","s","c","u","s","s","i","o","n","]"," ","a">>
FreshDiscussionTitle ==
    <<"[","F","R","E","S","H","]"," ",
      "(","d","i","s","c","u","s","s","i","o","n",")"," ","a">>
AlbumTitle == <<"[","A","l","b","u","m","]"," ","a">>

Titles == {FreshTitle, PlainTitle, DiscussionTitle, FreshDiscussionTitle,
           AlbumTitle}

Scores == {3, 7}
Thresholds == {0, 5}

\* a search response: falsy, raising, or a dict whose tracks.items holds the
\* candidates; a candidate is the id of its external_urls.spotify link, or 0
\* when the item has none
SearchResponses ==
    { [kind |-> "falsy", items |-> <<>>],
      [kind |-> "raises", items |-> <<>>],
      [kind |-> "dict", items |-> <<>>],
      [kind |-> "dict", items |-> <<0, 2>>],
      [kind |-> "dict", items |-> <<1, 2>>] }

NoSearch == [kind |-> "falsy", items |-> <<>>]

\* the i-th post of the leading run: a direct link to track i
FillPost(i) ==
    [domain |-> SpotifyDomain, url |-> Url("track", i, FALSE),
     title |-> FreshTitle, score |-> 7, search |-> NoSearch]

DirectUrls ==
    { Url("track", 1, FALSE), Url("track", 2, TRUE), Url("album", 1, FALSE),
      Url("other", 1, FALSE) }

DirectPosts ==
    { [domain |-> SpotifyDomain, url |-> u, title |-> t, score |-> s,
       search |-> NoSearch] :
        u \in DirectUrls, t \in Titles, s \in Scores }

SearchedPosts ==
    { [domain |-> "youtube.com", url |-> Url("other", 0, FALSE), title |-> t,
       score |-> s, search |-> r] :
        t \in Titles, s \in Scores, r \in SearchResponses }

TailPosts == DirectPosts \cup SearchedPosts

FillCounts ==
    {0, 1, BatchLimit - 1, BatchLimit, BatchLimit + 1, BatchLimit + MaxOver}

\* user.playlists
playlists == <<"p1", "p2">>

\* what a playlist may hold before the run: nothing; a track twice and two
\* tracks outside the leading run; tracks of the first and of the second batch
Contents ==
    { <<>>,
      <<TrackRef(1), TrackRef(BatchLimit + 9), TrackRef(BatchLimit + 8),
        TrackRef(1)>>,
      <<TrackRef(2), TrackRef(BatchLimit + 2), TrackRef(BatchLimit + 9)>> }

----------------------------------------------------------------------------
(* addSpotifyTrack and the searched branch of main *)

FRESH == <<"[","F","R","E","S","H","]">>
discussion == <<"d","i","s","c","u","s","s","i","o","n">>
album == <<"a","l","b","u","m">>
impressions == <<"i","m","p","r","e","s","s","i","o","n","s">>

\* url.split('?')[0]
formattedUrl(u) == [u EXCEPT !.qs = FALSE]

\* re.search('(track|album)', sub.url)
isMatch(u) == u.kind \in {"track", "album"}

\* the outcome of one call: the tracks list after it, and whether it raised
Outcome(trks, raised) == [tracks |-> trks, raised |-> raised]

addSpotifyTrack(p, trks) ==
    IF ~isMatch(p.url) THEN Outcome(trks, FALSE)
    ELSE IF threshold # 0 /\ p.score < threshold THEN Outcome(trks, FALSE)
    ELSE IF fresh /\ ~Contains(p.title, FRESH) THEN Outcome(trks, FALSE)
    ELSE IF includeAlbums /\ p.url.kind = "album"
         \* spotifyObj is a local of main: the name is unbound here
         THEN Outcome(trks, TRUE)
    ELSE IF p.url.kind = "track"
         THEN Outcome(Append(trks, formattedUrl(p.url)), FALSE)
    ELSE Outcome(trks, FALSE)

RECURSIVE ItemLoop(_, _)
\* `for item in items` from the i-th item on: the id of the first item that
\* carries a link, 0 for the None of falling off the end
ItemLoop(items, i) ==
    IF i > Len(items) THEN 0
    ELSE IF items[i] # 0 THEN items[i]
    ELSE ItemLoop(items, i + 1)

RECURSIVE ItemLoopLast(_, _)
ItemLoopLast(items, i) ==
    IF i < 1 THEN 0
    ELSE IF items[i] # 0 THEN items[i]
    ELSE ItemLoopLast(items, i - 1)

\* the variant of extract_track_url that walks the items from the last
extract_last_url(response) ==
    ItemLoopLast(response.items, Len(response.items))

extract_track_url(response) == ItemLoop(response.items, 1)

\* lines 459-478
searchTrack(p, trks) ==
    LET tags == filter_tags(p.title).tags IN
    IF discussion \in tags THEN Outcome(trks, FALSE)
    ELSE IF p.search.kind = "raises" THEN Outcome(trks, TRUE)
    ELSE IF album \in tags \/ impressions \in tags THEN Outcome(trks, FALSE)
    ELSE IF p.search.kind = "falsy" THEN Outcome(trks, FALSE)
    ELSE IF extract_track_url(p.search) # 0
         THEN Outcome(Append(trks, TrackRef(extract_track_url(p.search))),
                      FALSE)
    ELSE Outcome(trks, FALSE)

\* the body of `for sub in sub_choice` up to the overflow test
handlePost(p, trks) ==
    IF p.domain = SpotifyDomain
    THEN addSpotifyTrack(p, trks)
    ELSE searchTrack(p, trks)

\* the variant of overflow that seals at the limit
overflowAtLimit(trks) == Len(trks) >= BatchLimit

\* `if len(tracks) > 90`
overflow(trks) == Len(trks) > BatchLimit

----------------------------------------------------------------------------
(* The catalog's playlist calls *)

\* user_playlist_remove_all_occurrences_of_tracks: c without every
\* occurrence of every track of tr
Without(c, tr) ==
    LET gone == Range(tr)
        Kept(x) == x \notin gone
    IN SelectSeq(c, Kept)

\* the variant that removes by position: as many leading entries as tr holds
removeLeading(c, tr) ==
    IF Len(tr) >= Len(c) THEN <<>> ELSE SubSeq(c, Len(tr) + 1, Len(c))

\* the variant that removes nothing
removeNothing(c, tr) == c

remove_all_occurrences(c, tr) == Without(c, tr)

\* user_playlist_add_tracks: tr appended, duplicates and all
add_tracks(c, tr) == c \o tr

\* the variant of Advance with the loops swapped: every batch for one
\* playlist, then the next playlist
AdvancePlaylistFirst ==
    IF bi < Len(tracks_array)
    THEN /\ bi' = bi + 1
         /\ pli' = pli
         /\ pc' = "count"
    ELSE IF pli < Len(playlists)
    THEN /\ bi' = 1
         /\ pli' = pli + 1
         /\ pc' = "count"
    ELSE /\ pli' = pli
         /\ bi' = bi
         /\ pc' = "done"

\* the next (tr, playlist) pair of the two loops, or the end
Advance ==
    IF pli < Len(playlists)
    THEN /\ pli' = pli + 1
         /\ bi' = bi
         /\ pc' = "count"
    ELSE IF bi < Len(tracks_array)
    THEN /\ pli' = 1
         /\ bi' = bi + 1
         /\ pc' = "count"
    ELSE /\ pli' = pli
         /\ bi' = bi
         /\ pc' = "done"

Call(op) == <<op, bi, pli>>

----------------------------------------------------------------------------
(* main *)

TagsIdle ==
    /\ title = <<>>
    /\ scan = ScanInit
    /\ fpc = "idle"
    /\ ret = [filtered_title |-> <<>>, tags |-> {}]

SearchIdle ==
    /\ search = NoSearch
    /\ spc = "idle"
    /\ track_url = 0

MainIdle ==
    /\ threshold = 0
    /\ includeAlbums = FALSE
    /\ fresh = FALSE
    /\ verbose = FALSE
    /\ nFill = 0
    /\ content = [p \in Range(playlists) |-> <<>>]
    /\ pc = "idle"
    /\ k = 0
    /\ nTail = 0
    /\ tracks = <<>>
    /\ tracks_array = <<>>
    /\ bi = 0
    /\ pli = 0
    /\ results = "unbound"
    /\ out = <<>>
    /\ run = 1
    /\ failedAt = <<>>
    /\ calls = <<>>
    /\ accepted = <<>>
    /\ initContent = content
    /\ afterFirst = content

Init ==
    /\ TagsIdle
    /\ SearchIdle
    /\ threshold \in Thresholds
    /\ includeAlbums \in BOOLEAN
    /\ fresh \in BOOLEAN
    /\ verbose \in BOOLEAN
    /\ nFill \in FillCounts
    /\ content \in [Range(playlists) -> Contents]
    /\ pc = "feed"
    /\ k = 0
    /\ nTail = 0
    /\ tracks = <<>>
    /\ tracks_array = <<>>
    /\ bi = 0
    /\ pli = 0
    /\ results = "unbound"
    /\ out = <<>>
    /\ run = 1
    /\ failedAt = <<>>
    /\ calls = <<>>
    /\ accepted = <<>>
    /\ initContent = content
    /\ afterFirst = content

\* one iteration of `for sub in sub_choice` on post p (lines 454-482)
Iterate(p) ==
    LET o == handlePost(p, tracks) IN
    /\ k' = k + 1
    /\ IF o.raised
       THEN /\ pc' = "crashed"
            /\ UNCHANGED <<tracks, tracks_array, accepted>>
       ELSE /\ pc' = pc
            /\ accepted' = accepted \o SubSeq(o.tracks, Len(tracks) + 1,
                                              Len(o.tracks))
            /\ IF overflow(o.tracks)
               THEN /\ tracks_array' = Append(tracks_array, o.tracks)
                    /\ tracks' = <<>>
               ELSE /\ tracks_array' = tracks_array
                    /\ tracks' = o.tracks

\* the feed yields p, the next direct track link of its leading run
FillStep(p) ==
    /\ pc = "feed"
    /\ k < nFill
    /\ p = FillPost(k + 1)
    /\ Iterate(p)
    /\ UNCHANGED <<nTail, idleVars, argVars, syncVars>>

FillIteration == FillStep(FillPost(k + 1))

\* the feed yields p, one more post after the leading run
TailStep(p) ==
    /\ pc = "feed"
    /\ k >= nFill
    /\ nTail < MaxTail
    /\ Iterate(p)
    /\ nTail' = nTail + 1
    /\ UNCHANGED <<idleVars, argVars, syncVars>>

TailIteration == \E p \in TailPosts : TailStep(p)

\* the variant of lastBatch that takes a single remaining track for none
lastBatchOverOne(array, trks) ==
    IF Len(trks) > 1 THEN Append(array, trks) ELSE array

\* `if len(tracks) > 0: tracks_array.append(tracks)`
lastBatch(array, trks) ==
    IF Len(trks) > 0 THEN Append(array, trks) ELSE array

\* the feed is exhausted: lines 484-490, to the first catalog call
EndOfFeed ==
    /\ pc = "feed"
    /\ k >= nFill
    /\ tracks_array' = lastBatch(tracks_array, tracks)
    /\ IF (tracks # <<>> \/ tracks_array' # <<>>) /\ Len(tracks_array') >= 1
       THEN /\ pc' = "count"
            /\ bi' = 1
            /\ pli' = 1
       ELSE /\ pc' = "done"
            /\ UNCHANGED <<bi, pli>>
    /\ UNCHANGED <<k, nTail, tracks, accepted, idleVars, argVars, content,
                   results, out, run, failedAt, calls, initContent,
                   afterFirst>>

\* existing_tracks = spotifyObj.user_playlist_tracks(...)
CountRead ==
    /\ pc = "count"
    /\ pc' = "remove"
    /\ calls' = Append(calls, Call("count"))
    /\ UNCHANGED <<bi, pli, content, results, out, run, failedAt,
                   initContent, afterFirst, idleVars, argVars, feedVars>>

\* spotifyObj.user_playlist_remove_all_occurrences_of_tracks(...)
RemoveCall ==
    /\ pc = "remove"
    /\ pc' = "add"
    /\ content' = [content EXCEPT ![playlists[pli]] =
                       remove_all_occurrences(@, tracks_array[bi])]
    /\ calls' = Append(calls, Call("remove"))
    /\ UNCHANGED <<bi, pli, results, out, run, failedAt, initContent,
                   afterFirst, idleVars, argVars, feedVars>>

\* results = spotifyObj.user_playlist_add_tracks(...); the loops move on
\* unless verbose
AddCall ==
    /\ pc = "add"
    /\ content' = [content EXCEPT ![playlists[pli]] =
                       add_tracks(@, tracks_array[bi])]
    /\ results' = "snapshot"
    /\ calls' = Append(calls, Call("add"))
    /\ IF verbose
       THEN /\ pc' = "report"
            /\ UNCHANGED <<bi, pli>>
       ELSE Advance
    /\ UNCHANGED <<out, run, failedAt, initContent, afterFirst, idleVars,
                   argVars, feedVars>>

\* the verbose print: the playlist's name and its new total are read
Report ==
    /\ pc = "report"
    /\ calls' = Append(calls, Call("report"))
    /\ Advance
    /\ UNCHANGED <<content, results, out, run, failedAt, initContent,
                   afterFirst, idleVars, argVars, feedVars>>

\* the catalog call at hand raises; a remove or an add may have been
\* applied by the catalog before the error reached the client
CallRaises ==
    /\ pc \in {"count", "remove", "add", "report"}
    /\ run = 1
    /\ pc' = "except"
    /\ failedAt' = <<bi, pli, pc>>
    /\ calls' = Append(calls, Call(pc))
    /\ \E applied \in BOOLEAN :
        content' =
            IF applied /\ pc = "remove"
            THEN [content EXCEPT ![playlists[pli]] =
                      remove_all_occurrences(@, tracks_array[bi])]
            ELSE IF applied /\ pc = "add"
            THEN [content EXCEPT ![playlists[pli]] =
                      add_tracks(@, tracks_array[bi])]
            ELSE content
    /\ UNCHANGED <<bi, pli, results, out, run, initContent, afterFirst,
                   idleVars, argVars, feedVars>>

NoNewTracks == "No new tracks have been added."
ErrorLine == "An error has occured removing or adding new tracks"

\* the variant of Handler for a try inside the loops: the error is printed
\* and the loops move on to the next pair
HandlerMovesOn ==
    /\ pc = "except"
    /\ out' = Append(out, ErrorLine)
    /\ Advance
    /\ UNCHANGED <<content, results, run, failedAt, calls, initContent,
                   afterFirst, idleVars, argVars, feedVars>>

\* the bare except of lines 504-508
Handler ==
    /\ pc = "except"
    /\ IF results = "unbound"
       \* reading results raises UnboundLocalError inside the handler
       THEN /\ pc' = "crashed"
            /\ out' = out
       ELSE /\ pc' = "done"
            /\ out' = Append(out, IF results = "[]" /\ verbose
                                  THEN NoNewTracks
                                  ELSE ErrorLine)
    /\ UNCHANGED <<bi, pli, content, results, run, failedAt, calls,
                   initContent, afterFirst, idleVars, argVars, feedVars>>

\* the script is run again on the same feed, which resolves to the same
\* tracks; this time no catalog call raises
SyncAgain ==
    /\ pc \in {"done", "crashed"}
    /\ bi >= 1
    /\ run = 1
    /\ run' = 2
    /\ afterFirst' = content
    /\ pc' = "count"
    /\ bi' = 1
    /\ pli' = 1
    /\ results' = "unbound"
    /\ out' = <<>>
    /\ calls' = <<>>
    /\ UNCHANGED <<content, failedAt, initContent, idleVars, argVars,
                   feedVars>>

\* one run of main
Next ==
    \/ FillIteration
    \/ TailIteration
    \/ EndOfFeed
    \/ CountRead
    \/ RemoveCall
    \/ AddCall
    \/ Report
    \/ CallRaises
    \/ Handler

Spec == Init /\ [][Next]_vars

\* main run with no post filter set, then run again
InitRetry ==
    /\ Init
    /\ threshold = 0
    /\ ~includeAlbums
    /\ ~fresh

NextRetry ==
    \/ Next
    \/ SyncAgain

SpecRetry == InitRetry /\ [][NextRetry]_vars

----------------------------------------------------------------------------
(* filter_tags on its own: every title over Alphabet up to MaxLen *)

Alphabet == {"[", "]", "(", ")", "-", " ", "a", "F", "t"}

InitTags ==
    /\ MainIdle
    /\ SearchIdle
    /\ title = <<>>
    /\ scan = ScanInit
    /\ fpc = "scan"
    /\ ret = [filtered_title |-> <<>>, tags |-> {}]

\* the loop takes the next character of the title
ReadCharacter ==
    /\ fpc = "scan"
    /\ Len(title) < MaxLen
    /\ \E ch \in Alphabet :
        /\ title' = Append(title, ch)
        /\ scan' = ScanStep(scan, ch)
    /\ UNCHANGED <<fpc, ret, searchVars, argVars, feedVars, syncVars, pc>>

\* the title is exhausted: lines 253-266
Return ==
    /\ fpc = "scan"
    /\ fpc' = "returned"
    /\ ret' = ScanReturn(scan)
    /\ UNCHANGED <<title, scan, searchVars, argVars, feedVars, syncVars,
                   pc>>

NextTags ==
    \/ ReadCharacter
    \/ Return

SpecTags == InitTags /\ [][NextTags]_vars

----------------------------------------------------------------------------
(* Titles, read independently of the scan *)

Openers == {"[", "("}
Closers == {"]", ")"}
Brackets == Openers \cup Closers

closerOf(c) == IF c = "[" THEN "]" ELSE ")"

IsBracket(c) == c \in Brackets

bracketsOf(t) == SelectSeq(t, IsBracket)

\* every opener is followed, as the next bracket character, by its own closer
BalancedFlat(t) ==
    LET b == bracketsOf(t) IN
    /\ Len(b) % 2 = 0
    /\ \A i \in 1..Len(b) :
        IF i % 2 = 1
        THEN b[i] \in Openers
        ELSE b[i] = closerOf(b[i - 1])

lowerAll(t) == [i \in 1..Len(t) |-> lower(t[i])]

\* the (opener, closer) positions of t with no bracket character between
Pairs(t) ==
    { <<i, j>> \in (1..Len(t)) \X (1..Len(t)) :
        /\ i < j
        /\ t[i] \in Openers
        /\ t[j] = closerOf(t[i])
        /\ \A h \in (i + 1)..(j - 1) : t[h] \notin Brackets }

Inside(t, pr) == SubSeq(t, pr[1] + 1, pr[2] - 1)

\* the lower-cased words between the brackets of a pair
WordsInside(t) ==
    UNION { Range(split(lowerAll(Inside(t, pr)))) : pr \in Pairs(t) }

NoHyphen(s) == "-" \notin Range(s)

----------------------------------------------------------------------------
(* Claims on filter_tags *)

C10_TagsHoldEveryWord ==
    (fpc = "returned" /\ BalancedFlat(title)) =>
        /\ \A c \in Range(ret.filtered_title) : c \notin Brackets
        /\ WordsInside(title) \subseteq ret.tags

----------------------------------------------------------------------------
(* Claims on the feed pass *)

Occurrences(t, c) == Cardinality({i \in 1..Len(c) : c[i] = t})

CeilDiv(n, d) == (n + d - 1) \div d

HasDiscussionTag(p) == discussion \in filter_tags(p.title).tags

\* the posts the feed may yield
Posts == TailPosts \cup {FillPost(i) : i \in 1..(BatchLimit + MaxOver)}

\* the step is the loop iteration on post p
Iterates(p) == FillStep(p) \/ TailStep(p)

\* C1, as claimed: the batch being filled and every sealed batch hold at
\* most 90 track references.
C1_BatchAtMostLimit ==
    /\ Len(tracks) <= BatchLimit
    /\ \A i \in 1..Len(tracks_array) : Len(tracks_array[i]) <= BatchLimit

\* C3, as claimed: n single tracks make ceil(n/90) batches, each but the last
\* of exactly 90, and a run that ends without error has issued exactly one
\* remove and one add per batch and playlist.
C3_BatchAndCallCount ==
    (pc = "done" /\ failedAt = <<>>) =>
        /\ Len(tracks_array) = CeilDiv(Len(accepted), BatchLimit)
        /\ \A i \in 1..(Len(tracks_array) - 1) :
               Len(tracks_array[i]) = BatchLimit
        /\ \A i \in 1..Len(tracks_array) : \A j \in 1..Len(playlists) :
               /\ Occurrences(<<"remove", i, j>>, calls) = 1
               /\ Occurrences(<<"add", i, j>>, calls) = 1

\* C7, as claimed: a post whose title carries a discussion tag adds no track
\* reference, whatever its domain and whatever the flags.
C7_DiscussionAddsNothing ==
    [][\A p \in Posts :
           (HasDiscussionTag(p) /\ Iterates(p)) => accepted' = accepted]_vars

\* C8, as claimed: with a threshold set, a post scored below it adds no track
\* reference, direct link or searched.
C8_BelowThresholdAddsNothing ==
    [][\A p \in Posts :
           (threshold # 0 /\ p.score < threshold /\ Iterates(p))
               => accepted' = accepted]_vars

----------------------------------------------------------------------------
(* Claims on the sync *)

Synced == pc = "done" /\ bi >= 1 /\ failedAt = <<>>

\* C2, as claimed: after a sync in which every call succeeded, each synced
\* track occurs at most once in each target playlist.
C2_AtMostOnce ==
    (Synced /\ run = 1) =>
        \A j \in 1..Len(playlists) : \A t \in Range(accepted) :
            Occurrences(t, content[playlists[j]]) <= 1

\* C5, as claimed: a run in which a catalog call failed ends with the handler
\* completed and exactly one error line printed.
C5_FailureSurfaced ==
    (failedAt # <<>> /\ pc \in {"done", "crashed"}) =>
        /\ pc = "done"
        /\ out = <<ErrorLine>>

\* C4: when the sync is run twice with the same tracks and every call
\* succeeds, each playlist holds the same set of tracks after the second run
\* as after the first.
C4_SecondRunSameSet ==
    (Synced /\ run = 2) =>
        \A j \in 1..Len(playlists) :
            Range(content[playlists[j]]) = Range(afterFirst[playlists[j]])

\* C4 witness: two batches were synced twice into a playlist that held
\* tracks before, some of them in the batches.
C4_Witness ==
    /\ Synced
    /\ run = 2
    /\ Len(tracks_array) = 2
    /\ \E j \in 1..Len(playlists) :
        /\ Range(initContent[playlists[j]]) \cap Range(accepted) # {}
        /\ Range(initContent[playlists[j]]) \ Range(accepted) # {}

RECURSIVE FailureFree(_, _, _)
\* the playlist c after remove-then-add of batches i.. of tracks_array
FailureFree(c, batches, i) ==
    IF i > Len(batches) THEN c
    ELSE FailureFree(add_tracks(remove_all_occurrences(c, batches[i]),
                                batches[i]),
                     batches, i + 1)

\* C6: after a sync that failed at any call, running the sync again with
\* every call succeeding leaves each playlist with the contents one
\* failure-free sync from the original state gives, and no track of the
\* playlist or of the batches is missing.
C6_RetryRestores ==
    (pc = "done" /\ run = 2 /\ failedAt # <<>>) =>
        \A j \in 1..Len(playlists) :
            LET p == playlists[j] IN
            /\ content[p] = FailureFree(initContent[p], tracks_array, 1)
            /\ Range(initContent[p]) \cup Range(accepted)
                   \subseteq Range(content[p])

\* C6 witness: the first run failed at an add whose remove had taken tracks
\* out of the playlist, and the second run has ended.
C6_Witness ==
    /\ pc = "done"
    /\ run = 2
    /\ failedAt # <<>>
    /\ failedAt[3] = "add"
    /\ Range(initContent[playlists[failedAt[2]]])
           \cap Range(tracks_array[failedAt[1]]) # {}
    /\ Range(afterFirst[playlists[failedAt[2]]])
           \cap Range(tracks_array[failedAt[1]]) = {}

----------------------------------------------------------------------------
(* extract_track_url on every response *)

\* most candidates in a response
MaxItems == 4
\* the candidates: 0 carries no link, the others are catalog track ids
Candidates == {0, 1, 2}

Responses ==
    { [kind |-> "dict", items |-> [i \in 1..n |-> f[i]]] :
          n \in 0..MaxItems, f \in [1..MaxItems -> Candidates] }

InitSearch ==
    /\ TagsIdle
    /\ MainIdle
    /\ search \in Responses
    /\ spc = "call"
    /\ track_url = 0

\* track_url = extract_track_url(search)
ExtractUrl ==
    /\ spc = "call"
    /\ track_url' = extract_track_url(search)
    /\ spc' = "extracted"
    /\ UNCHANGED <<search, tagVars, argVars, feedVars, syncVars, pc>>

\* `if track_url: ... tracks.append(track_url)`
AppendUrl ==
    /\ spc = "extracted"
    /\ tracks' = IF track_url # 0
                 THEN Append(tracks, TrackRef(track_url))
                 ELSE tracks
    /\ spc' = "appended"
    /\ UNCHANGED <<search, track_url, tagVars, argVars, k, nTail,
                   tracks_array, accepted, syncVars, pc>>

NextSearch ==
    \/ ExtractUrl
    \/ AppendUrl

SpecSearch == InitSearch /\ [][NextSearch]_vars

----------------------------------------------------------------------------
(* Claims on extract_track_url *)

Linked(items) == {i \in 1..Len(items) : items[i] # 0}

----------------------------------------------------------------------------
(* Further claims on filter_tags *)

\* the prefixes of the title, and the scan after each
Prefix(t, n) == SubSeq(t, 1, n)
ScanAfter(t, n) == ScanAll(ScanInit, Prefix(t, n), 1)

Punctuation == Brackets \cup {"-", ".", ",", "!", "?"}

\* C11, as claimed: for every title, no returned tag is the empty string and
\* none consists only of punctuation characters.
C11_TagsWellFormed ==
    fpc = "returned" =>
        \A t \in ret.tags :
            /\ t # <<>>
            /\ \E i \in 1..Len(t) : t[i] \notin Punctuation

\* the words the feat loop is given
WordsIn == split(scan.filtered_title)

MarkerPositions(words) == {j \in 1..Len(words) : words[j] \in ft_set}

\* the words before the first marker word, all of them when there is none
BeforeFirstMarker(words) ==
    IF MarkerPositions(words) = {}
    THEN words
    ELSE SubSeq(words, 1,
                (CHOOSE j \in MarkerPositions(words) :
                     \A h \in MarkerPositions(words) : j <= h) - 1)

\* C12: the words returned are a prefix of the words given: the words before
\* the first marker word when one occurs, every word otherwise (none when
\* none is given).
C12_TruncatesAtFirstMarker ==
    fpc = "returned" =>
        /\ ret.filtered_title = join(BeforeFirstMarker(WordsIn))
        /\ LET kept == split(ret.filtered_title) IN
           /\ Len(kept) <= Len(WordsIn)
           /\ kept = SubSeq(WordsIn, 1, Len(kept))

\* C12 witness: a title whose last word is a marker, with a word before it,
\* has been truncated to that word.
C12_Witness ==
    /\ fpc = "returned"
    /\ Len(WordsIn) = 2
    /\ WordsIn[2] \in ft_set
    /\ WordsIn[1] \notin ft_set
    /\ ret.filtered_title = WordsIn[1]

----------------------------------------------------------------------------
(* Further claims on the feed pass *)

\* a post that links into the catalog and passes the score and title filters
PassesFilters(p) ==
    /\ p.domain = SpotifyDomain
    /\ p.url.kind \in {"track", "album"}
    /\ ~(threshold # 0 /\ p.score < threshold)
    /\ ~(fresh /\ ~Contains(p.title, FRESH))

\* the tracks the catalog lists for an album, in album order
TracksOfAlbum(u) == <<TrackRef(u.id)>>

\* C13, as claimed: a direct link that passes the filters loses its query
\* string; a track link adds exactly the stripped link, an album link adds
\* nothing when albums are not included and its tracks, in album order,
\* when they are.
C13_DirectLinkResolved ==
    [][\A p \in Posts :
           (PassesFilters(p) /\ Iterates(p)) =>
               IF p.url.kind = "track"
               THEN accepted' = Append(accepted, [p.url EXCEPT !.qs = FALSE])
               ELSE IF includeAlbums
                    THEN accepted' = accepted \o TracksOfAlbum(p.url)
                    ELSE accepted' = accepted]_vars

----------------------------------------------------------------------------
(* Further claims on the sync *)

\* the catalog calls made for one (batch, playlist) pair, in order
OpsOfPair ==
    IF verbose
    THEN <<"count", "remove", "add", "report">>
    ELSE <<"count", "remove", "add">>

\* the n-th call of a run that walks the batches in order and, for each,
\* the playlists in order
ExpectedCall(n) ==
    LET m == Len(OpsOfPair)
        q == (n - 1) \div m
    IN <<OpsOfPair[((n - 1) % m) + 1],
         (q \div Len(playlists)) + 1,
         (q % Len(playlists)) + 1>>

\* C14: the calls of a run are made batch by batch in sealing order and,
\* for each batch, playlist by playlist in configured order; for each pair
\* the count comes before the remove and the remove before the add, and no
\* call of a later pair comes before the add of the pair at hand.
C14_ProtocolOrder ==
    \A n \in 1..Len(calls) :
        /\ calls[n] = ExpectedCall(n)
        /\ calls[n][2] <= Len(tracks_array)

\* C14 witness: a failure-free run over more than one batch has made every
\* call of every pair.
C14_Witness ==
    /\ pc = "done"
    /\ failedAt = <<>>
    /\ Len(tracks_array) > 1
    /\ Len(calls) = Len(tracks_array) * Len(playlists) * Len(OpsOfPair)

RECURSIVE Flatten(_)
Flatten(array) ==
    IF array = <<>> THEN <<>> ELSE Head(array) \o Flatten(Tail(array))

\* the pass over the feed has ended and handed its batches to the sync
PassEnded == pc # "feed" /\ ~(pc = "crashed" /\ bi = 0)

\* C15: while the feed is read the sealed batches followed by the open one
\* are the accepted references in feed order; once the pass has ended the
\* sealed batches alone are, and none of them is empty.
C15_BatchesAreAccepted ==
    /\ ~PassEnded => Flatten(tracks_array) \o tracks = accepted
    /\ PassEnded =>
           /\ Flatten(tracks_array) = accepted
           /\ \A b \in 1..Len(tracks_array) : tracks_array[b] # <<>>

\* C15 witness: a pass has ended with a full batch and a last one of the
\* references left over.
C15_Witness ==
    /\ PassEnded
    /\ Len(tracks_array) > 1
    /\ Len(tracks_array[Len(tracks_array)]) < Len(tracks_array[1])
    /\ Flatten(tracks_array) = accepted

----------------------------------------------------------------------------
(* Claims on titles whose brackets do not pair up *)

\* the position of the opener of the tag that is open after title t
OpenedAt(t) ==
    CHOOSE i \in 1..Len(t) :
        /\ ~ScanAfter(t, i - 1).add_to_tag
        /\ \A j \in i..Len(t) : ScanAfter(t, j).add_to_tag

\* the step reads a closer that does not match the opener of the open tag
ReadsOtherCloser ==
    /\ scan.add_to_tag
    /\ Len(title') = Len(title) + 1
    /\ title'[Len(title')] \in Closers
    /\ title'[Len(title')] # closerOf(scan.last_pun)

\* the scan ends while a tag is open
ReturnsInTag == fpc = "scan" /\ fpc' = "returned" /\ scan.add_to_tag

\* C16: a closer that does not match the opener of the open tag is appended
\* to the tag buffer and leaves the tag open; when the scan ends with a tag
\* open, what is returned is what the title up to that tag's opener alone
\* returns: nothing read since then is in the query or in a tag.
C16_OtherCloserAndOpenTag ==
    [][/\ ReadsOtherCloser =>
              /\ scan'.add_to_tag
              /\ scan'.tag = Append(scan.tag, title'[Len(title')])
              /\ scan'.tags = scan.tags
              /\ scan'.filtered_title = scan.filtered_title
       /\ ReturnsInTag =>
              ret' = filter_tags(Prefix(title, OpenedAt(title) - 1))]_vars

\* C16 witness: a title with text, then a tag opened, a closer of the other
\* kind and a letter, and no matching closer, has been returned.
C16_Witness ==
    /\ fpc = "returned"
    /\ scan.add_to_tag
    /\ OpenedAt(title) > 1
    /\ ret.filtered_title # <<>>
    /\ \E i \in 1..Len(scan.tag) : scan.tag[i] \in Closers
    /\ \E i \in 1..Len(scan.tag) : scan.tag[i] \notin Brackets \cup {" "}

\* C19: for every title, its brackets paired up or not, the returned query
\* holds no bracket character.
C19_NoBracketInQuery ==
    fpc = "returned" =>
        \A i \in 1..Len(ret.filtered_title) :
            ret.filtered_title[i] \notin Brackets

\* C19 witness: a title with a closer outside of any tag, and text, has been
\* returned.
C19_Witness ==
    /\ fpc = "returned"
    /\ ret.filtered_title # <<>>
    /\ \E i \in 1..Len(title) :
        /\ title[i] \in Closers
        /\ ~ScanAfter(title, i - 1).add_to_tag

----------------------------------------------------------------------------
(* Claims on a run in which a catalog call fails *)

\* C18: once a catalog call of a run has failed, the run makes no further
\* catalog call and changes no playlist; a playlist the run had not reached
\* when the call failed holds what it held before the run.
C18_AbortOnFailure ==
    [][/\ failedAt # <<>> => (calls' = calls /\ content' = content)
       /\ (failedAt' # <<>> /\ failedAt'[1] = 1) =>
              \A j \in (failedAt'[2] + 1)..Len(playlists) :
                  content'[playlists[j]] = initContent'[playlists[j]]]_vars

\* C18 witness: the remove for the first playlist failed with a second batch
\* and a second playlist still to come, and the run has ended.
C18_Witness ==
    /\ failedAt # <<>>
    /\ failedAt[1] = 1
    /\ failedAt[2] < Len(playlists)
    /\ failedAt[3] = "remove"
    /\ Len(tracks_array) > 1
    /\ pc \in {"done", "crashed"}

====
